---------------------------- MODULE Spec2Model ----------------------------
(***************************************************************************)
(* Model of logparser.py (Pacemaker log parser for SAP on GCP): the        *)
(* command-line validation of LogParser.__init__, the ingestion drivers    *)
(* (logfile_parser, hb_report_parser, sosreport_parser and                 *)
(* compressed_file_parser), parse_log_line with its timestamp normalizer,  *)
(* the in-memory table 'log' and the critical-event query of               *)
(* generate_output.                                                        *)
(*                                                                         *)
(* Text is a sequence of one-character strings, so that the regular        *)
(* expressions, re.split, str.strip, strptime, str(datetime) and SQLite's  *)
(* LIKE are computed on characters as the code computes them.              *)
(***************************************************************************)
EXTENDS Integers, Sequences, FiniteSets, TLC

(***************************************************************************)
(* Bounds of the model.                                                    *)
(***************************************************************************)
\* Lines the environment supplies in one run of Spec (over all sources).
MaxLines == 1
\* Lines the environment supplies in one run of SpecLines.
MaxLinesL == 2
\* Lines the environment supplies in one run of SpecQuery.
MaxLinesQ == 3
\* Files named on the command line in one run of Spec (over all four options).
MaxFilesTotal == 3
\* Cluster nodes a hb_report archive names.
MaxMembers == 1

\* The largest number of files each of -s, -p, -hb and -sos accepts.
MaxPerSource == 2

(***************************************************************************)
(* Characters.                                                             *)
(***************************************************************************)
Digits == <<"0","1","2","3","4","5","6","7","8","9">>

Upper == <<"A","B","C","D","E","F","G","H","I","J","K","L","M","N","O","P","Q","R","S","T","U","V","W","X","Y","Z">>

Lower == <<"a","b","c","d","e","f","g","h","i","j","k","l","m","n","o","p","q","r","s","t","u","v","w","x","y","z">>

Range(f) == {f[i] : i \in DOMAIN f}

\* \d of Python's re on the characters of the model
IsDigit(c) == c \in Range(Digits)

\* \s
IsSpace(c) == c \in {" ", "\t", "\n", "\r", "\f"}

\* \w
IsWord(c) == c \in Range(Upper) \cup Range(Lower) \cup Range(Digits) \cup {"_"}

DigitVal(c) == (CHOOSE i \in 1..10 : Digits[i] = c) - 1

RECURSIVE ToInt(_)
\* int() of a string of decimal digits
ToInt(s) ==
  IF s = <<>> THEN 0
  ELSE ToInt(SubSeq(s, 1, Len(s) - 1)) * 10 + DigitVal(s[Len(s)])

\* ASCII case folding, as strptime's %b and SQLite's LIKE compare letters
Fold(c) ==
  IF \E i \in 1..26 : Upper[i] = c
  THEN Lower[CHOOSE i \in 1..26 : Upper[i] = c]
  ELSE c

FoldSeq(s) == [i \in 1..Len(s) |-> Fold(s[i])]

\* s[i..] begins with p
StartsAt(s, p, i) ==
  /\ i >= 1
  /\ i + Len(p) - 1 <= Len(s)
  /\ \A k \in 1..Len(p) : s[i + k - 1] = p[k]

\* p occurs in s
Contains(s, p) == \E i \in 1..(Len(s) - Len(p) + 1) : StartsAt(s, p, i)

\* The last index of the run of characters satisfying the class that starts
\* at i (i - 1 when s[i] is not of the class): a greedy \s+, \d+ or \d*.
SpaceRunEnd(s, i) ==
  CHOOSE e \in (i - 1)..Len(s) :
    /\ \A k \in i..e : IsSpace(s[k])
    /\ (e = Len(s) \/ ~IsSpace(s[e + 1]))

DigitRunEnd(s, i) ==
  CHOOSE e \in (i - 1)..Len(s) :
    /\ \A k \in i..e : IsDigit(s[k])
    /\ (e = Len(s) \/ ~IsDigit(s[e + 1]))

\* A fixed-length pattern: "\\d" stands for \d, any other element for itself.
MatchMask(s, i, mask) ==
  /\ i >= 1
  /\ i + Len(mask) - 1 <= Len(s)
  /\ \A k \in 1..Len(mask) :
       IF mask[k] = "\\d" THEN IsDigit(s[i + k - 1]) ELSE s[i + k - 1] = mask[k]

\* The least element of a non-empty set of integers
Least(S) == CHOOSE x \in S : \A y \in S : x <= y

(***************************************************************************)
(* The keyword patterns (alternations of literals) of __init__.            *)
(* 'cli-prefer' and 'cib-bootstrap-options-maintenance-mode' are adjacent  *)
(* string literals with no '|' between them: one alternative.              *)
(***************************************************************************)
pacemaker_log_keywords ==
  { <<"L","o","g","A","c","t","i","o","n">>, <<"L","o","g","N","o","d","e","A","c","t","i","o","n","s">>, <<"s","t","o","n","i","t","h","-","n","g">>, <<"p","a","c","e","m","a","k","e","r","-","f","e","n","c","e","d">>,
    <<"c","r","i","t",":">>, <<"c","h","e","c","k","_","m","i","g","r","a","t","i","o","n","_","t","h","r","e","s","h","o","l","d">>, <<"c","o","r","o","s","y","n","c">>, <<"R","e","s","u","l","t"," ","o","f">>,
    <<"r","e","b","o","o","t">>, <<"c","a","n","n","o","t"," ","r","u","n"," ","a","n","y","w","h","e","r","e">>, <<"a","t","t","r","d","_","p","e","e","r","_","u","p","d","a","t","e">>,
    <<"H","i","g","h"," ","C","P","U"," ","l","o","a","d"," ","d","e","t","e","c","t","e","d">>, <<"c","l","i","-","b","a","n">>,
    <<"c","l","i","-","p","r","e","f","e","r","c","i","b","-","b","o","o","t","s","t","r","a","p","-","o","p","t","i","o","n","s","-","m","a","i","n","t","e","n","a","n","c","e","-","m","o","d","e">>,
    <<"-","i","s","-","m","a","n","a","g","e","d">>, <<"-","m","a","i","n","t","e","n","a","n","c","e">>, <<"-","s","t","a","n","d","b","y">> }

\* The system pattern without 'reboot'
system_log_keywords_without_reboot ==
  { <<"S","A","P","H","a","n","a","(">>, <<"S","A","P","H","a","n","a","C","o","n","t","r","o","l","l","e","r","(">>, <<"S","A","P","H","a","n","a","T","o","p","o","l","o","g","y","(">>,
    <<"S","A","P","I","n","s","t","a","n","c","e","(">>, <<"g","c","p","-","v","p","c","-","m","o","v","e","-","v","i","p">>, <<"g","c","p",":","a","l","i","a","s">>, <<"g","c","p",":","s","t","o","n","i","t","h">>,
    <<"f","e","n","c","e","_","g","c","e">>, <<"c","o","r","o","s","y","n","c","[">>, <<"R","e","s","u","l","t"," ","o","f">> }

system_log_keywords ==
  { <<"S","A","P","H","a","n","a","(">>, <<"S","A","P","H","a","n","a","C","o","n","t","r","o","l","l","e","r","(">>, <<"S","A","P","H","a","n","a","T","o","p","o","l","o","g","y","(">>,
    <<"S","A","P","I","n","s","t","a","n","c","e","(">>, <<"g","c","p","-","v","p","c","-","m","o","v","e","-","v","i","p">>, <<"g","c","p",":","a","l","i","a","s">>, <<"g","c","p",":","s","t","o","n","i","t","h">>,
    <<"f","e","n","c","e","_","g","c","e">>, <<"c","o","r","o","s","y","n","c","[">>, <<"R","e","s","u","l","t"," ","o","f">>, <<"r","e","b","o","o","t">> }

\* re.search(pattern, logline) for a pattern that is an alternation of literals
re_search(pattern, logline) == \E kw \in pattern : Contains(logline, kw)

(***************************************************************************)
(* datetime: <<year, month, day, hour, minute, second>>.                   *)
(***************************************************************************)
MonthAbbr ==
  << <<"j","a","n">>, <<"f","e","b">>, <<"m","a","r">>, <<"a","p","r">>, <<"m","a","y">>, <<"j","u","n">>,
     <<"j","u","l">>, <<"a","u","g">>, <<"s","e","p">>, <<"o","c","t">>, <<"n","o","v">>, <<"d","e","c">> >>

IsLeap(y) == (y % 4 = 0 /\ y % 100 # 0) \/ y % 400 = 0

DaysInMonth(y, m) ==
  IF m = 2 THEN (IF IsLeap(y) THEN 29 ELSE 28)
  ELSE IF m \in {4, 6, 9, 11} THEN 30 ELSE 31

\* The values datetime's constructor accepts (it raises ValueError otherwise)
ValidDateTime(y, m, d, hh, mm, ss) ==
  /\ y \in 1..9999
  /\ m \in 1..12
  /\ d >= 1 /\ d <= DaysInMonth(y, m)
  /\ hh \in 0..23 /\ mm \in 0..59 /\ ss \in 0..59

\* n in decimal, zero-padded to w digits
RECURSIVE Pad(_, _)
Pad(n, w) ==
  IF w = 0 THEN <<>> ELSE Pad(n \div 10, w - 1) \o <<Digits[(n % 10) + 1]>>

\* str(datetime) of a datetime without microseconds: 'YYYY-MM-DD HH:MM:SS'
DateTimeStr(t) ==
  Pad(t[1], 4) \o <<"-">> \o Pad(t[2], 2) \o <<"-">> \o Pad(t[3], 2) \o <<" ">>
    \o Pad(t[4], 2) \o <<":">> \o Pad(t[5], 2) \o <<":">> \o Pad(t[6], 2)

\* "no value": what a Python None stands for in the model
None == <<"None">>

\* The exceptions the model tells apart from values
ValueError == <<"ValueError">>

IndexError == <<"IndexError">>

(***************************************************************************)
(* Timestamp normalizer.                                                   *)
(***************************************************************************)
\* \d\d:\d\d:\d\d
TimeMask == <<"\\d","\\d",":","\\d","\\d",":","\\d","\\d">>

\* time_format2[0]: \d{4}-\d\d-\d\dT\d\d:\d\d:\d\d
IsoMask ==
  <<"\\d","\\d","\\d","\\d","-","\\d","\\d","-","\\d","\\d","T">> \o TimeMask

\* pattern_format_list[0][0]: \d{4}-\d\d-\d\d-\d\d:\d\d
InputMask1 ==
  <<"\\d","\\d","\\d","\\d","-","\\d","\\d","-","\\d","\\d","-",
    "\\d","\\d",":","\\d","\\d">>

\* pattern_format_list[1][0]: \d{4}-\d\d-\d\d
InputMask2 == <<"\\d","\\d","\\d","\\d","-","\\d","\\d","-","\\d","\\d">>

\* time_format1[0], \w{3}\s+\d+\s\d\d:\d\d:\d\d, matched at i: the index of the
\* match's last character, 0 when it does not match there.  The character
\* classes of adjacent greedy runs are disjoint, so the greedy match is the
\* only one.
Ts1EndAt(s, i) ==
  IF /\ i + 2 <= Len(s)
     /\ IsWord(s[i]) /\ IsWord(s[i + 1]) /\ IsWord(s[i + 2])
     /\ SpaceRunEnd(s, i + 3) >= i + 3
     /\ DigitRunEnd(s, SpaceRunEnd(s, i + 3) + 1) >= SpaceRunEnd(s, i + 3) + 1
     /\ LET d == DigitRunEnd(s, SpaceRunEnd(s, i + 3) + 1)
        IN  /\ d + 1 <= Len(s)
            /\ IsSpace(s[d + 1])
            /\ MatchMask(s, d + 2, TimeMask)
  THEN DigitRunEnd(s, SpaceRunEnd(s, i + 3) + 1) + 9
  ELSE 0

\* re.search(time_format1[0], line).group(), None when there is no match
Ts1Search(line) ==
  LET hits == {i \in 1..Len(line) : Ts1EndAt(line, i) > 0}
  IN  IF hits = {} THEN None
      ELSE SubSeq(line, Least(hits), Ts1EndAt(line, Least(hits)))

\* re.search(time_format2[0], line).group(), None when there is no match
Ts2Search(line) ==
  LET hits == {i \in 1..Len(line) : MatchMask(line, i, IsoMask)}
  IN  IF hits = {} THEN None
      ELSE SubSeq(line, Least(hits), Least(hits) + Len(IsoMask) - 1)

\* datetime.strptime(str(year) + ' ' + g, '%Y %b %d %H:%M:%S') for a match g
\* of time_format1[0]: the datetime, or "ValueError"
Strptime1(year, g) ==
  LET mon  == FoldSeq(SubSeq(g, 1, 3))
      ms   == {m \in 1..12 : MonthAbbr[m] = mon}
      dd   == SubSeq(g, SpaceRunEnd(g, 4) + 1, Len(g) - 9)
      n    == Len(g)
      hh   == ToInt(SubSeq(g, n - 7, n - 6))
      mm   == ToInt(SubSeq(g, n - 4, n - 3))
      ss   == ToInt(SubSeq(g, n - 1, n))
  IN  IF /\ ms # {}
         /\ Len(dd) <= 2
         /\ ValidDateTime(year, Least(ms), ToInt(dd), hh, mm, ss)
      THEN <<year, Least(ms), ToInt(dd), hh, mm, ss>>
      ELSE ValueError

\* datetime.strptime(g, '%Y-%m-%dT%H:%M:%S') for a match g of time_format2[0]
Strptime2(g) ==
  LET y  == ToInt(SubSeq(g, 1, 4))
      m  == ToInt(SubSeq(g, 6, 7))
      d  == ToInt(SubSeq(g, 9, 10))
      hh == ToInt(SubSeq(g, 12, 13))
      mm == ToInt(SubSeq(g, 15, 16))
      ss == ToInt(SubSeq(g, 18, 19))
  IN  IF ValidDateTime(y, m, d, hh, mm, ss)
      THEN <<y, m, d, hh, mm, ss>>
      ELSE ValueError

\* What format_timestamp_from_logline does with a line read in calendar year
\* `year` (datetime.now().year): it returns [timestamp, 1], [timestamp, 2] or
\* None, or it logs and calls sys.exit() on strptime's ValueError.
format_timestamp_from_logline(line, year) ==
  LET ts1 == Ts1Search(line)
      ts2 == Ts2Search(line)
  IN  IF ts1 # None
      THEN IF Strptime1(year, ts1) = ValueError
           THEN [ret |-> "exit"]
           ELSE [ret |-> "ts", ts |-> Strptime1(year, ts1), kind |-> 1]
      ELSE IF ts2 # None
      THEN IF Strptime2(ts2) = ValueError
           THEN [ret |-> "exit"]
           ELSE [ret |-> "ts", ts |-> Strptime2(ts2), kind |-> 2]
      ELSE [ret |-> "None"]

\* What format_timestamp_from_timeinput does with the text of -b or -e: the
\* datetime, or a logged message followed by sys.exit().  strptime converts
\* the whole text, so a text that merely contains a match fails to convert.
format_timestamp_from_timeinput(time) ==
  IF \E i \in 1..Len(time) : MatchMask(time, i, InputMask1)
  THEN IF /\ Len(time) = Len(InputMask1)
          /\ ValidDateTime(ToInt(SubSeq(time, 1, 4)), ToInt(SubSeq(time, 6, 7)),
                           ToInt(SubSeq(time, 9, 10)), ToInt(SubSeq(time, 12, 13)),
                           ToInt(SubSeq(time, 15, 16)), 0)
       THEN [ret |-> "ts",
             ts |-> <<ToInt(SubSeq(time, 1, 4)), ToInt(SubSeq(time, 6, 7)),
                      ToInt(SubSeq(time, 9, 10)), ToInt(SubSeq(time, 12, 13)),
                      ToInt(SubSeq(time, 15, 16)), 0>>]
       ELSE [ret |-> "exit", msg |-> "Timestamp formatting failed"]
  ELSE IF \E i \in 1..Len(time) : MatchMask(time, i, InputMask2)
  THEN IF /\ Len(time) = Len(InputMask2)
          /\ ValidDateTime(ToInt(SubSeq(time, 1, 4)), ToInt(SubSeq(time, 6, 7)),
                           ToInt(SubSeq(time, 9, 10)), 0, 0, 0)
       THEN [ret |-> "ts",
             ts |-> <<ToInt(SubSeq(time, 1, 4)), ToInt(SubSeq(time, 6, 7)),
                      ToInt(SubSeq(time, 9, 10)), 0, 0, 0>>]
       ELSE [ret |-> "exit", msg |-> "Timestamp formatting failed"]
  ELSE [ret |-> "exit", msg |-> "Timestamp format needs to be YYYY-MM-DD-HH:MM or YYYY-MM-DD"]

(***************************************************************************)
(* Line classifier and splitter.                                           *)
(***************************************************************************)
\* re.sub(r'\[\d*\]', '', logline, 1): the leftmost '[digits]' removed
StripPid(logline) ==
  LET hits == {i \in 1..Len(logline) :
                 /\ logline[i] = "["
                 /\ DigitRunEnd(logline, i + 1) + 1 <= Len(logline)
                 /\ logline[DigitRunEnd(logline, i + 1) + 1] = "]"}
  IN  IF hits = {} THEN logline
      ELSE SubSeq(logline, 1, Least(hits) - 1)
             \o SubSeq(logline, DigitRunEnd(logline, Least(hits) + 1) + 2, Len(logline))

RECURSIVE re_split(_, _)
\* re.split(r'\s+', s, maxsplit)
re_split(s, maxsplit) ==
  LET ws == {i \in 1..Len(s) : IsSpace(s[i])}
  IN  IF maxsplit = 0 \/ ws = {} THEN <<s>>
      ELSE <<SubSeq(s, 1, Least(ws) - 1)>>
             \o re_split(SubSeq(s, SpaceRunEnd(s, Least(ws)) + 1, Len(s)), maxsplit - 1)

\* str.strip(ch): every leading and every trailing ch removed
Strip(s, ch) ==
  LET keep == {i \in 1..Len(s) : s[i] # ch}
  IN  IF keep = {} THEN <<>>
      ELSE SubSeq(s, Least(keep), CHOOSE j \in keep : \A k \in keep : k <= j)

\* newline[4].strip(':').strip('/')
StripComponent(field) == Strip(Strip(field, ":"), "/")

\* A splitter with one layout, that of the syslog lines, for both grammars
BuildRecordOneLayout(timestamp, kind, logline) ==
  LET newline == re_split(logline, 5)
  IN  IF Len(newline) < 6 THEN IndexError
      ELSE <<DateTimeStr(timestamp), newline[4], StripComponent(newline[5]),
             newline[6]>>

\* The record parse_log_line builds from the split line, or "IndexError" when
\* the split has too few fields (Python indexes from 0, the model from 1).
BuildRecord(timestamp, kind, logline) ==
  LET newline == IF kind = 1 THEN re_split(logline, 5) ELSE re_split(logline, 3)
      first   == IF kind = 1 THEN 4 ELSE 2
  IN  IF Len(newline) < first + 2 THEN IndexError
      ELSE <<DateTimeStr(timestamp), newline[first],
             StripComponent(newline[first + 1]), newline[first + 2]>>

\* The keyword pattern parse_log_line selects for a log type
KeywordsOf(logtype) ==
  IF logtype = "s" THEN system_log_keywords ELSE pacemaker_log_keywords

\* A parse_log_line without the keyword pre-filter
parse_log_line_unfiltered(logline, logtype, year) ==
  LET stripped  == StripPid(logline)
      timestamp == format_timestamp_from_logline(stripped, year)
  IN  IF timestamp.ret = "exit" THEN [act |-> "exit"]
      ELSE IF timestamp.ret = "None" THEN [act |-> "drop"]
      ELSE IF BuildRecord(timestamp.ts, timestamp.kind, stripped) = IndexError
           THEN [act |-> "raise"]
           ELSE [act |-> "insert",
                 record |-> BuildRecord(timestamp.ts, timestamp.kind, stripped),
                 ts |-> timestamp.ts, kind |-> timestamp.kind]

\* What parse_log_line does with one line: nothing ("drop"), INSERT of a
\* record ("insert"), sys.exit() ("exit"), or an uncaught IndexError ("raise").
parse_log_line(logline, logtype, year) ==
  IF logtype \notin {"s", "p"} THEN [act |-> "exit"]
  ELSE IF ~re_search(KeywordsOf(logtype), logline) THEN [act |-> "drop"]
  ELSE LET stripped  == StripPid(logline)
           timestamp == format_timestamp_from_logline(stripped, year)
       IN  IF timestamp.ret = "exit" THEN [act |-> "exit"]
           ELSE IF timestamp.ret = "None" THEN [act |-> "drop"]
           ELSE IF BuildRecord(timestamp.ts, timestamp.kind, stripped) = IndexError
                THEN [act |-> "raise"]
                ELSE [act |-> "insert",
                      record |-> BuildRecord(timestamp.ts, timestamp.kind, stripped),
                      ts |-> timestamp.ts, kind |-> timestamp.kind]

(***************************************************************************)
(* The lines the environment can supply, each as readline() returns it.    *)
(***************************************************************************)
Line ==
  [ fence    |-> <<"J","a","n"," ","5"," ","1","0",":","0","0",":","0","0"," ","n","o","d","e","1"," ","s","t","o","n","i","t","h","-","n","g",":"," ","n","o","t","i","c","e",":"," ","r","e","m","o","t","e","_","o","p","_","d","o","n","e",":"," ","O","p","e","r","a","t","i","o","n"," ","'","r","e","b","o","o","t","'"," ","t","a","r","g","e","t","i","n","g"," ","n","o","d","e","2"," ","b","y"," ","n","o","d","e","1"," ","f","o","r"," ",".",".",".",":"," ","O","K","\n">>,
    iso      |-> <<"2","0","2","1","-","0","1","-","0","1","T","1","2",":","0","0",":","0","0"," ","n","o","d","e","2"," ",":","c","r","m","d","/",":"," ","c","r","i","t",":"," ","c","l","i","-","b","a","n"," ","x","\n">>,
    pid      |-> <<"J","a","n"," "," ","5"," ","1","0",":","0","0",":","0","1"," ","n","o","d","e","1"," ","p","a","c","e","m","a","k","e","r","-","f","e","n","c","e","d","[","1","2","3","4","]",":"," ","e","r","r","o","r",":"," ","*"," ","F","E","N","C","E"," ","n","o","d","e","2"," ","F","a","i","l","e","d","\n">>,
    prefer   |-> <<"2","0","2","1","-","0","1","-","0","1","T","1","2",":","0","0",":","0","1"," ","n","o","d","e","1"," ","c","r","m","d",":"," ","c","l","i","-","p","r","e","f","e","r","-","r","s","c","\n">>,
    ban      |-> <<"2","0","2","1","-","0","1","-","0","1","T","1","2",":","0","0",":","0","2"," ","n","o","d","e","1"," ","c","r","m","d",":"," ","c","l","i","-","b","a","n","-","r","s","c","\n">>,
    nokw     |-> <<"J","a","n"," ","5"," ","1","0",":","0","0",":","0","0"," ","n","o","d","e","1"," ","s","s","h","d",":"," ","s","e","s","s","i","o","n"," ","o","p","e","n","e","d","\n">>,
    nots     |-> <<"n","o","d","e","1"," ","c","o","r","o","s","y","n","c","["," ","r","e","b","o","o","t","\n">>,
    badmonth |-> <<"2","0","2","1","-","1","3","-","0","1","T","0","0",":","0","0",":","0","0"," ","n","o","d","e","1"," ","c","o","r","o","s","y","n","c",":"," ","r","e","b","o","o","t","\n">>,
    badword  |-> <<"F","o","o"," ","5"," ","1","0",":","0","0",":","0","0"," ","n","o","d","e","1"," ","c","o","r","o","s","y","n","c",":"," ","r","e","b","o","o","t","\n">>,
    short1   |-> <<"J","a","n"," ","5"," ","1","0",":","0","0",":","0","0"," ","r","e","b","o","o","t","\n">>,
    short2   |-> <<"2","0","2","1","-","0","1","-","0","1","T","1","2",":","0","0",":","0","0"," ","r","e","b","o","o","t","\n">>,
    q1       |-> <<"2","0","2","0","-","1","2","-","3","1","T","0","0",":","0","0",":","0","0"," ","n","o","d","e","1"," ","c","r","m","d",":"," ","c","r","i","t",":"," ","e","a","r","l","y","\n">>,
    q2       |-> <<"2","0","2","1","-","0","1","-","0","1","T","0","0",":","0","0",":","0","0"," ","n","o","d","e","1"," ","c","r","m","d",":"," ","c","r","i","t",":"," ","a","t"," ","b","e","g","i","n","\n">>,
    q3       |-> <<"2","0","2","1","-","0","1","-","0","1","T","1","2",":","0","0",":","0","0"," ","n","o","d","e","1"," ","s","t","o","n","i","t","h","-","n","g",":"," ","c","r","i","t",":"," ","r","e","m","o","t","e","_","o","p","_","d","o","n","e",":"," ","O","p","e","r","a","t","i","o","n"," ","o","k","\n">>,
    q4       |-> <<"2","0","2","1","-","0","1","-","0","2","T","0","0",":","0","0",":","0","0"," ","n","o","d","e","2"," ","c","r","m","d",":"," ","c","r","i","t",":"," ","a","t"," ","e","n","d","\n">>,
    q5       |-> <<"2","0","2","1","-","0","1","-","0","1","T","1","2",":","0","0",":","0","0"," ","n","o","d","e","2"," ","c","o","r","o","s","y","n","c",":"," ","r","e","b","o","o","t","\n">> ]

\* The lines of a run of Spec: one that is inserted under either log type,
\* one that is dropped, one whose timestamp fails to convert, one too short
PoolMain == {"fence", "nokw", "badmonth", "short1"}

\* The lines of a run of SpecLines
PoolLines ==
  {"fence", "iso", "pid", "prefer", "ban", "nokw", "nots", "badmonth", "badword",
   "short1", "short2"}

\* The lines of a run of SpecQuery: records before, at the begin, inside and at
\* the end of the window 2021-01-01 .. 2021-01-02, three with the same timestamp, two
\* matching two rules, one matching none
PoolQuery == {"iso", "q1", "q2", "q3", "q4", "q5"}

\* The calendar years datetime.now() can be in while a run reads its lines
Years == {2021}

LogTypes == {"s", "p"}

\* parse_log_line on every line of the catalogue, computed once
Parsed ==
  [l \in DOMAIN Line, t \in LogTypes, y \in Years |-> parse_log_line(Line[l], t, y)]

(***************************************************************************)
(* The table 'log' and the critical-event query (sql_query).               *)
(* A row of the table is <<TIME, NODE, COMPONENT, PAYLOAD>>; its rowid is  *)
(* its index, since rows are only ever inserted.  A row of a SELECT of the *)
(* query is <<rowid, TIME, NODE, COMPONENT, PAYLOAD>>.                     *)
(***************************************************************************)
\* The characters of str(datetime) in the order of their code points, which is
\* the order SQLite's comparison of TEXT (BINARY collation) uses
CodeOrder == <<" ", "-", "0", "1", "2", "3", "4", "5", "6", "7", "8", "9", ":">>

Code(c) == CHOOSE i \in DOMAIN CodeOrder : CodeOrder[i] = c

\* a < b for two TEXT values
TextLess(a, b) ==
  \/ /\ Len(a) < Len(b)
     /\ \A k \in 1..Len(a) : a[k] = b[k]
  \/ \E i \in 1..Len(a) :
       /\ i <= Len(b)
       /\ \A k \in 1..(i - 1) : a[k] = b[k]
       /\ Code(a[i]) < Code(b[i])

\* No ESCAPE clause
NoEscape == ""

RECURSIVE LikeAt(_, _, _, _, _)
\* s[i..] LIKE p[j..]: '%' any run, '_' any one character, the character after
\* the escape character stands for itself, letters compare case-insensitively
LikeAt(s, i, p, j, esc) ==
  IF j > Len(p) THEN i > Len(s)
  ELSE IF p[j] = esc /\ j < Len(p)
    THEN i <= Len(s) /\ Fold(s[i]) = Fold(p[j + 1]) /\ LikeAt(s, i + 1, p, j + 2, esc)
  ELSE IF p[j] = "%"
    THEN \E k \in i..(Len(s) + 1) : LikeAt(s, k, p, j + 1, esc)
  ELSE IF p[j] = "_"
    THEN i <= Len(s) /\ LikeAt(s, i + 1, p, j + 1, esc)
  ELSE i <= Len(s) /\ Fold(s[i]) = Fold(p[j]) /\ LikeAt(s, i + 1, p, j + 1, esc)

\* s LIKE p
Like(s, p) == LikeAt(s, 1, p, 1, NoEscape)

\* s LIKE p ESCAPE esc
LikeEscape(s, p, esc) == LikeAt(s, 1, p, 1, esc)

\* Fencing actions & results, stonith timeout
Rule1(PAYLOAD) ==
  \/ LikeEscape(PAYLOAD, <<"%","$","*","%","F","E","N","C","E","%">>, "$")
  \/ Like(PAYLOAD, <<"%","r","e","m","o","t","e","_","o","p","_","d","o","n","e","%","O","p","e","r","a","t","i","o","n","%">>)
  \/ Like(PAYLOAD, <<"%","m","o","n","i","t","o","r","%","T","i","m","e","r","%","e","x","p","i","r","e","d","%">>)

\* Pacemaker actions for resources, CRMD critical logs, high CPU load
Rule2(PAYLOAD) ==
  \/ Like(PAYLOAD, <<"%","n","o","t","i","c","e","%","L","o","g","A","c","t","i","o","n","%">>)
  \/ Like(PAYLOAD, <<"%","(","L","o","g","A","c","t","i","o","n",")","%">>)
  \/ Like(PAYLOAD, <<"%","c","r","i","t",":","%">>)
  \/ Like(PAYLOAD, <<"%","F","o","r","c","i","n","g","%","a","w","a","y","%">>)
  \/ Like(PAYLOAD, <<"%","c","a","n","n","o","t","%","r","u","n","%","a","n","y","w","h","e","r","e","%">>)
  \/ Like(PAYLOAD, <<"%","a","t","t","r","d","_","p","e","e","r","_","u","p","d","a","t","e","%","I","N","F","I","N","I","T","Y","%">>)
  \/ Like(PAYLOAD, <<"%","C","P","U","%","d","e","t","e","c","t","e","d","%">>)

\* Corosync error or membership change
Rule3(PAYLOAD) ==
  /\ Like(PAYLOAD, <<"%","T","O","T","E","M","%">>)
  /\ \/ Like(PAYLOAD, <<"%","f","a","i","l","e","d","%">>)
     \/ Like(PAYLOAD, <<"%","m","e","m","b","e","r","s","h","i","p","%">>)
     \/ Like(PAYLOAD, <<"%","R","e","t","r","a","n","s","m","i","t","%">>)

\* Failed resource operations
Rule4(PAYLOAD) ==
  /\ Like(PAYLOAD, <<"%","R","e","s","u","l","t","%","o","f","%","o","p","e","r","a","t","i","o","n","%">>)
  /\ ~Like(PAYLOAD, <<"%","o","k","%">>)
  /\ ~Like(PAYLOAD, <<"%","C","a","n","c","e","l","l","e","d","%">>)
  /\ ~Like(PAYLOAD, <<"%","p","r","o","b","e","%">>)

\* SAPInstance, gcp:stonith, gcp:alias, gcp-vpc-move-vip, fence_gce error
Rule5(COMPONENT, PAYLOAD) ==
  /\ \/ Like(COMPONENT, <<"S","A","P","I","n","s","t","a","n","c","e","%">>)
     \/ COMPONENT \in { <<"s","t","o","n","i","t","h","-","n","g">>, <<"g","c","p",":","s","t","o","n","i","t","h">>, <<"g","c","p",":","a","l","i","a","s">>,
                        <<"g","c","p","-","v","p","c","-","m","o","v","e","-","v","i","p">>, <<"f","e","n","c","e","_","g","c","e">> }
  /\ \/ Like(PAYLOAD, <<"%","E","R","R","O","R","%">>)
     \/ Like(PAYLOAD, <<"%","F","a","i","l","e","d","%">>)

\* SAPHANA error or warning
Rule6(COMPONENT, PAYLOAD) ==
  /\ Like(COMPONENT, <<"S","A","P","H","a","n","a","%">>)
  /\ \/ Like(PAYLOAD, <<"%","E","R","R","O","R",":","%">>)
     \/ Like(PAYLOAD, <<"%","W","A","R","N","I","N","G",":","%">>)
     \/ Like(PAYLOAD, <<"%","A","C","T","%","S","F","A","I","L","%">>)

\* Cluster/Node/RSC maintenance/standby/manage mode change
Rule7(PAYLOAD) ==
  \/ Like(PAYLOAD, <<"%","c","i","b","-","b","o","o","t","s","t","r","a","p","-","o","p","t","i","o","n","s","-","m","a","i","n","t","e","n","a","n","c","e","-","m","o","d","e","%","v","a","l","u","e","%">>)
  \/ Like(PAYLOAD, <<"%","c","i","b","_","p","e","r","f","o","r","m","_","o","p","%","n","o","d","e","s","-","%","-","m","a","i","n","t","e","n","a","n","c","e","%">>)
  \/ Like(PAYLOAD, <<"%","c","i","b","_","p","e","r","f","o","r","m","_","o","p","%","n","o","d","e","s","-","%","-","s","t","a","n","d","b","y","%">>)
  \/ Like(PAYLOAD, <<"%","c","i","b","_","p","e","r","f","o","r","m","_","o","p","%","m","e","t","a","_","a","t","t","r","i","b","u","t","e","s","-","%">>)

\* Location constraint cli-ban or cli-prefer due to manual resource movement
Rule8(PAYLOAD) ==
  \/ Like(PAYLOAD, <<"%","c","l","i","-","b","a","n","%">>)
  \/ Like(PAYLOAD, <<"%","c","l","i","-","p","r","e","f","e","r","%">>)

\* The WHERE clause of the n-th SELECT of the list sql, on a row of the table
Where(n, record) ==
  CASE n = 1 -> Rule1(record[4])
    [] n = 2 -> Rule2(record[4])
    [] n = 3 -> Rule3(record[4])
    [] n = 4 -> Rule4(record[4])
    [] n = 5 -> Rule5(record[3], record[4])
    [] n = 6 -> Rule6(record[3], record[4])
    [] n = 7 -> Rule7(record[4])
    [] n = 8 -> Rule8(record[4])

\* The number of SELECTs appended to the list sql
NumRules == 8

\* The records parse_log_line can insert from the lines of the catalogue
Records ==
  {r.record : r \in {x \in {Parsed[k] : k \in DOMAIN Parsed} : x.act = "insert"}}

\* The SELECTs of sql whose WHERE clause a record satisfies, computed once for
\* every record of the catalogue
Selected == [record \in Records |-> {n \in 1..NumRules : Where(n, record)}]

\* A window closed at both ends: TIME >= begin and TIME <= end
TimeConditionClosed(TIME, begin, end) ==
  /\ begin = None \/ ~TextLess(TIME, DateTimeStr(begin))
  /\ end = None \/ ~TextLess(DateTimeStr(end), TIME)

\* The string `time` of __init__ on a TIME value: the WHERE on TIME (nothing
\* when neither -b nor -e is given)
TimeCondition(TIME, begin, end) ==
  /\ begin = None \/ TextLess(DateTimeStr(begin), TIME)
  /\ end = None \/ TextLess(TIME, DateTimeStr(end))

RECURSIVE RowsFrom(_, _, _, _)
\* The rows i.. of the table that satisfy the WHERE on TIME, with their rowid
RowsFrom(table, i, begin, end) ==
  IF i > Len(table) THEN <<>>
  ELSE (IF TimeCondition(table[i][1], begin, end)
        THEN << <<i>> \o table[i] >> ELSE <<>>)
         \o RowsFrom(table, i + 1, begin, end)

\* FROM log WHERE <time>: the rows a SELECT of sql ranges over
TimeFilter(table, begin, end) == RowsFrom(table, 1, begin, end)

\* The n-th SELECT of sql over the rows of `data`
SelectRule(n, data) ==
  LET pick(row) == n \in Selected[SubSeq(row, 2, 5)]
  IN  SelectSeq(data, pick)

RECURSIVE Distinct(_)
\* UNION: each distinct row once
Distinct(rows) ==
  IF rows = <<>> THEN <<>>
  ELSE LET front == Distinct(SubSeq(rows, 1, Len(rows) - 1))
           last  == rows[Len(rows)]
       IN  IF last \in Range(front) THEN front ELSE Append(front, last)

RECURSIVE UnionAll(_, _)
\* The rows of the SELECTs n..NumRules, one SELECT after the other
UnionAll(n, data) ==
  IF n > NumRules THEN <<>> ELSE SelectRule(n, data) \o UnionAll(n + 1, data)

\* ' UNION ALL '.join(sql): a row once for every SELECT that returns it
UnionAllRows(data) == UnionAll(1, data)

\* ' UNION '.join(sql)
Union(data) == Distinct(UnionAll(1, data))

\* Row x sorts before row y under ORDER BY TIME, rowid
RowBefore(x, y) ==
  \/ TextLess(x[2], y[2])
  \/ x[2] = y[2] /\ x[1] < y[1]

\* No ORDER BY: the rows as the compound SELECT yields them
OrderByNothing(rows) == rows

RECURSIVE OrderBy(_)
\* ORDER BY TIME, rowid
OrderBy(rows) ==
  IF rows = <<>> THEN <<>>
  ELSE LET m == Least({i \in DOMAIN rows :
                          \A j \in DOMAIN rows : ~RowBefore(rows[j], rows[i])})
       IN  <<rows[m]>>
             \o OrderBy(SubSeq(rows, 1, m - 1) \o SubSeq(rows, m + 1, Len(rows)))

\* The compound SELECT inside FROM( ... ): rows with rowid, ordered
InnerQuery(table, begin, end) == OrderBy(Union(TimeFilter(table, begin, end)))

\* SELECT TIME, NODE, COMPONENT, PAYLOAD FROM( ... ): the rowid is left out
OuterSelect(inner) == [k \in 1..Len(inner) |-> SubSeq(inner[k], 2, 5)]

\* sql_query
sql_query(table, begin, end) == OuterSelect(InnerQuery(table, begin, end))

(***************************************************************************)
(* The run: LogParser(args) followed by LogParser.logparser().             *)
(***************************************************************************)
VARIABLES
  args,        \* the parsed command line: -b and -e (text or None) and the
               \* number of files given to -s, -p, -hb and -sos (0: option absent)
  pool,        \* environment: the lines the files of this run can hold
  nowYear,     \* environment: datetime.now().year
  budget,      \* environment: lines the files still hold (bounds the run)
  date_begin,  \* self.date_begin, a datetime or None
  date_end,    \* self.date_end, a datetime or None
  log,         \* the rows of table 'log', in rowid order
  origin,      \* history: for each row, the line, log type and source it came from
  read,        \* history: the lines readline() has returned, with their log type
  pc,          \* where the run is
  fileIdx,     \* how many files of the current option have been taken up
  reading,     \* a file or archive member is open and being read line by line
  members,     \* hb_report_parser: len(members)
  member,      \* hb_report_parser: the index of `member` in members
  part,        \* the archive member compressed_file_parser is asked for
  os_ver,      \* sosreport_parser: ten times float(os_ver)
  logged,      \* the diagnostics logged so far
  out,         \* the rows written to the output file, None before that
  outIds,      \* history: the rowids of the rows of `out`, in order
  offered      \* history: the files handed to open() or tarfile.open(), in order

vars ==
  <<args, pool, nowYear, budget, date_begin, date_end, log, origin, read, pc,
    fileIdx, reading, members, member, part, os_ver, logged, out, outIds, offered>>

\* a < b for two datetimes
DateTimeLess(a, b) ==
  \E i \in 1..6 : (\A k \in 1..(i - 1) : a[k] = b[k]) /\ a[i] < b[i]

\* The argument validation of __init__: the window, or the message logged
\* before sys.exit()
Validate(a) ==
  LET fb == IF a.b = None THEN [ret |-> "ts", ts |-> None]
            ELSE format_timestamp_from_timeinput(a.b)
      fe == IF a.e = None THEN [ret |-> "ts", ts |-> None]
            ELSE format_timestamp_from_timeinput(a.e)
  IN  IF a.s = 0 /\ a.p = 0 /\ a.hb = 0 /\ a.sos = 0
        THEN [ret |-> "exit", msg |-> "Please specify at least one file to parse"]
      ELSE IF fb.ret = "exit" THEN fb
      ELSE IF fe.ret = "exit" THEN fe
      ELSE IF a.b # None /\ a.e # None /\ ~DateTimeLess(fb.ts, fe.ts)
        THEN [ret |-> "exit", msg |-> "Begin time is equal or later than end time"]
      ELSE IF a.s > MaxPerSource
        THEN [ret |-> "exit", msg |-> "Please input max two system logs"]
      ELSE IF a.p > MaxPerSource
        THEN [ret |-> "exit", msg |-> "Please input max two pacemaker logs"]
      ELSE IF a.hb > MaxPerSource
        THEN [ret |-> "exit", msg |-> "Please input max two hb_report"]
      ELSE IF a.sos > MaxPerSource
        THEN [ret |-> "exit", msg |-> "Please input max two sosreport"]
      ELSE [ret |-> "ok", begin |-> fb.ts, end |-> fe.ts]

\* The status the process ends with: sys.exit() without an argument and a
\* normal return exit with 0, an uncaught exception with 1
ExitStatus == IF pc = "raised" THEN 1 ELSE 0

\* The texts of -b and -e a run of Spec can be given
BeginInputs == {None, <<"2","0","2","1","-","0","1","-","0","1">>, <<"2","0","2","1","-","1","3","-","0","1">>, <<"2","0","2","1","/","0","1","/","0","1">>}

EndInputs == {None, <<"2","0","2","1","-","0","1","-","0","1","-","0","0",":","0","0">>}

\* The texts of -b and -e a run of SpecQuery can be given
BeginInputsQ == {None, <<"2","0","2","1","-","0","1","-","0","1">>}

EndInputsQ == {None, <<"2","0","2","1","-","0","1","-","0","2">>}

\* What etc/os-release can say: nothing (os_ver stays 0), 7.9 or 8.4
OsVersions == {0, 79, 84}

InitRun ==
  /\ nowYear \in Years
  /\ date_begin = None
  /\ date_end = None
  /\ log = <<>>
  /\ origin = <<>>
  /\ read = <<>>
  /\ pc = "init"
  /\ fileIdx = 0
  /\ reading = FALSE
  /\ members = 0
  /\ member = 0
  /\ part = "-"
  /\ os_ver = 0
  /\ logged = {}
  /\ out = None
  /\ outIds = <<>>
  /\ offered = <<>>

Init ==
  /\ args \in {a \in [b : BeginInputs, e : EndInputs,
                      s : 0..(MaxPerSource + 1), p : 0..(MaxPerSource + 1),
                      hb : 0..(MaxPerSource + 1), sos : 0..(MaxPerSource + 1)] :
                 a.s + a.p + a.hb + a.sos <= MaxFilesTotal}
  /\ pool = PoolMain
  /\ budget = MaxLines
  /\ InitRun

\* Runs over system and pacemaker logs, without a window
InitLines ==
  /\ args \in {a \in [b : {None}, e : {None}, s : 0..MaxPerSource,
                      p : 0..MaxPerSource, hb : {0}, sos : {0}] : a.s + a.p >= 1}
  /\ pool = PoolLines
  /\ budget = MaxLinesL
  /\ InitRun

\* Runs over pacemaker logs alone, with and without a window
InitQuery ==
  /\ args \in [b : BeginInputsQ, e : EndInputsQ, s : {0}, p : 1..MaxPerSource,
               hb : {0}, sos : {0}]
  /\ pool = PoolQuery
  /\ budget = MaxLinesQ
  /\ InitRun

--------------------------------------------------------------------------
\* __init__: validation, then the in-memory table is created
Construct ==
  /\ pc = "init"
  /\ LET v == Validate(args)
     IN  IF v.ret = "exit"
         THEN /\ pc' = "exit"
              /\ logged' = logged \cup {v.msg}
              /\ UNCHANGED <<date_begin, date_end>>
         ELSE /\ pc' = "system_log"
              /\ date_begin' = v.begin
              /\ date_end' = v.end
              /\ UNCHANGED logged
  /\ UNCHANGED <<args, pool, nowYear, budget, log, origin, read, fileIdx,
                 reading, members, member, part, os_ver, out, outIds, offered>>

\* __init__: sqlite3.Error while creating the table
DbCreateError ==
  /\ pc = "init"
  /\ Validate(args).ret = "ok"
  /\ pc' = "exit"
  /\ logged' = logged \cup {"Error creating the DB and table"}
  /\ UNCHANGED <<args, pool, nowYear, budget, date_begin, date_end, log,
                 origin, read, fileIdx, reading, members, member, part,
                 os_ver, out, outIds, offered>>

\* The list logfile_parser loops over at pc
LogFiles == IF pc = "system_log" THEN args.s ELSE args.p

\* logfile_parser: open(log) succeeds
OpenLogOk ==
  /\ pc \in {"system_log", "pacemaker_log"}
  /\ ~reading
  /\ fileIdx < LogFiles
  /\ fileIdx' = fileIdx + 1
  /\ reading' = TRUE
  /\ UNCHANGED <<args, pool, nowYear, budget, date_begin, date_end, log,
                 origin, read, pc, members, member, part, os_ver, logged, out,
                 outIds>>
  /\ offered' = Append(offered, <<IF pc = "system_log" THEN "s" ELSE "p",
                                 fileIdx + 1>>)

\* logfile_parser: open(log) raises OSError, which is logged; the loop goes on
OpenLogFail ==
  /\ pc \in {"system_log", "pacemaker_log"}
  /\ ~reading
  /\ fileIdx < LogFiles
  /\ fileIdx' = fileIdx + 1
  /\ logged' = logged \cup {"Cannot find/open/read file"}
  /\ UNCHANGED <<args, pool, nowYear, budget, date_begin, date_end, log,
                 origin, read, pc, reading, members, member, part, os_ver,
                 out, outIds>>
  /\ offered' = Append(offered, <<IF pc = "system_log" THEN "s" ELSE "p",
                                 fileIdx + 1>>)

\* logfile_parser: readline() raises OSError, which is logged; the loop goes on
LogReadError ==
  /\ pc \in {"system_log", "pacemaker_log"}
  /\ reading
  /\ reading' = FALSE
  /\ logged' = logged \cup {"Cannot find/open/read file"}
  /\ UNCHANGED <<args, pool, nowYear, budget, date_begin, date_end, log,
                 origin, read, pc, fileIdx, members, member, part, os_ver,
                 out, outIds, offered>>

\* logfile_parser: readline() returns '' (end of file)
EndOfLog ==
  /\ pc \in {"system_log", "pacemaker_log"}
  /\ reading
  /\ reading' = FALSE
  /\ UNCHANGED <<args, pool, nowYear, budget, date_begin, date_end, log,
                 origin, read, pc, fileIdx, members, member, part, os_ver,
                 logged, out, outIds, offered>>

\* logparser: the list is absent or exhausted, on to the next option
NextSource ==
  /\ pc \in {"system_log", "pacemaker_log"}
  /\ ~reading
  /\ fileIdx = LogFiles
  /\ pc' = IF pc = "system_log" THEN "pacemaker_log" ELSE "hb_report"
  /\ fileIdx' = 0
  /\ UNCHANGED <<args, pool, nowYear, budget, date_begin, date_end, log,
                 origin, read, reading, members, member, part, os_ver, logged,
                 out, outIds, offered>>

\* The log type of the lines being read
LogType ==
  IF pc = "system_log" THEN "s"
  ELSE IF pc = "pacemaker_log" THEN "p"
  ELSE IF part \in {"messages", "journal.log", "var/log/messages"} THEN "s"
  ELSE "p"

\* The file or archive member being read
Source == <<pc, fileIdx, member, part>>

\* readline() returns line l, and parse_log_line(l, LogType) runs
ParseStep(l) ==
  /\ pc \in {"system_log", "pacemaker_log", "hb_logs", "sos_logs"}
  /\ reading
  /\ budget > 0
  /\ l \in pool
  /\ budget' = budget - 1
  /\ read' = Append(read, [line |-> l, logtype |-> LogType])
  /\ LET r == Parsed[l, LogType, nowYear]
     IN  CASE r.act = "insert" ->
                /\ log' = Append(log, r.record)
                /\ origin' = Append(origin, [line |-> l, logtype |-> LogType,
                                             ts |-> r.ts, kind |-> r.kind,
                                             source |-> Source])
                /\ UNCHANGED <<pc, logged>>
           [] r.act = "drop" ->
                UNCHANGED <<log, origin, pc, logged>>
           [] r.act = "exit" ->
                /\ pc' = "exit"
                /\ logged' = logged \cup {"Timestamp formatting failed (log line)"}
                /\ UNCHANGED <<log, origin>>
           [] r.act = "raise" ->
                /\ pc' = "raised"
                /\ UNCHANGED <<log, origin, logged>>
  /\ UNCHANGED <<args, pool, nowYear, date_begin, date_end, fileIdx, reading,
                 members, member, part, os_ver, out, outIds, offered>>

ReadLine == \E l \in pool : ParseStep(l)

\* logparser: no -hb was given
SkipHb ==
  /\ pc = "hb_report"
  /\ args.hb = 0
  /\ pc' = "sosreport"
  /\ UNCHANGED <<args, pool, nowYear, budget, date_begin, date_end, log,
                 origin, read, fileIdx, reading, members, member, part,
                 os_ver, logged, out, outIds, offered>>

\* hb_report_parser(self.hb_report[0]): tarfile.open succeeds
HbOpenOk ==
  /\ pc = "hb_report"
  /\ args.hb > 0
  /\ pc' = "hb_members"
  /\ fileIdx' = 1
  /\ UNCHANGED <<args, pool, nowYear, budget, date_begin, date_end, log,
                 origin, read, reading, members, member, part, os_ver, logged,
                 out, outIds>>
  /\ offered' = Append(offered, <<"hb", 1>>)

\* hb_report_parser: tarfile.open raises ReadError or FileNotFoundError
HbOpenFail ==
  /\ pc = "hb_report"
  /\ args.hb > 0
  /\ \E m \in {"Cannot read the file (archive)", "Cannot find the file (archive)"} :
       logged' = logged \cup {m}
  /\ pc' = "exit"
  /\ UNCHANGED <<args, pool, nowYear, budget, date_begin, date_end, log,
                 origin, read, fileIdx, reading, members, member, part,
                 os_ver, out, outIds>>
  /\ offered' = Append(offered, <<"hb", 1>>)

\* The state after hb_report_parser has found n node names
WithMembers(n) ==
  /\ members' = n
  /\ member' = IF n = 0 THEN 0 ELSE 1
  /\ part' = IF n = 0 THEN "-" ELSE "pacemaker.log"
  /\ pc' = IF n = 0 THEN "sosreport" ELSE "hb_logs"
  /\ fileIdx' = IF n = 0 THEN 0 ELSE fileIdx

\* hb_report_parser: members.txt names the nodes
HbMembersTxt ==
  /\ pc = "hb_members"
  /\ \E n \in 1..MaxMembers : WithMembers(n)
  /\ UNCHANGED <<args, pool, nowYear, budget, date_begin, date_end, log,
                 origin, read, reading, os_ver, logged, out, outIds, offered>>

\* hb_report_parser: members.txt is missing (KeyError) or names no node, and
\* description.txt names the nodes
HbDescription ==
  /\ pc = "hb_members"
  /\ \E n \in 0..MaxMembers : WithMembers(n)
  /\ \E missing \in BOOLEAN :
       logged' = IF missing THEN logged \cup {"members.txt is missing"} ELSE logged
  /\ UNCHANGED <<args, pool, nowYear, budget, date_begin, date_end, log,
                 origin, read, reading, os_ver, out, outIds, offered>>

\* hb_report_parser: members.txt gives no node and description.txt is missing
HbNoDescription ==
  /\ pc = "hb_members"
  /\ \E missing \in BOOLEAN :
       logged' = (IF missing THEN logged \cup {"members.txt is missing"} ELSE logged)
                   \cup {"description.txt is missing"}
  /\ pc' = "exit"
  /\ UNCHANGED <<args, pool, nowYear, budget, date_begin, date_end, log,
                 origin, read, fileIdx, reading, members, member, part,
                 os_ver, out, outIds, offered>>

\* The state after compressed_file_parser has returned `ok` for `part`: the
\* fallbacks of hb_report_parser (pacemaker.log -> corosync.log, messages ->
\* journal.log), the two members sosreport_parser asks for, then the next
\* node or archive
AfterMember(ok) ==
  IF pc = "hb_logs"
  THEN LET next == CASE part = "pacemaker.log" -> IF ok THEN "messages" ELSE "corosync.log"
                     [] part = "corosync.log" -> "messages"
                     [] part = "messages" -> IF ok THEN "-" ELSE "journal.log"
                     [] part = "journal.log" -> "-"
       IN  IF next # "-"
           THEN part' = next /\ UNCHANGED <<pc, member, members, fileIdx, os_ver>>
           ELSE IF member < members
           THEN /\ member' = member + 1
                /\ part' = "pacemaker.log"
                /\ UNCHANGED <<pc, members, fileIdx, os_ver>>
           ELSE /\ pc' = "sosreport"
                /\ member' = 0 /\ members' = 0 /\ part' = "-" /\ fileIdx' = 0
                /\ UNCHANGED os_ver
  ELSE IF part = "var/log/messages"
       THEN /\ part' = IF os_ver >= 80 THEN "var/log/pacemaker/pacemaker.log"
                       ELSE "var/log/cluster/corosync.log"
            /\ UNCHANGED <<pc, member, members, fileIdx, os_ver>>
       ELSE /\ pc' = "sosreport"
            /\ part' = "-"
            /\ os_ver' = 0
            /\ UNCHANGED <<member, members, fileIdx>>

\* compressed_file_parser: extractfile finds the member
MemberOpenOk ==
  /\ pc \in {"hb_logs", "sos_logs"}
  /\ ~reading
  /\ reading' = TRUE
  /\ UNCHANGED <<args, pool, nowYear, budget, date_begin, date_end, log,
                 origin, read, pc, fileIdx, members, member, part, os_ver,
                 logged, out, outIds, offered>>

\* compressed_file_parser: extractfile raises KeyError; it is logged and False
\* is returned
MemberMissing ==
  /\ pc \in {"hb_logs", "sos_logs"}
  /\ ~reading
  /\ logged' = logged \cup {"member not found"}
  /\ AfterMember(FALSE)
  /\ UNCHANGED <<args, pool, nowYear, budget, date_begin, date_end, log,
                 origin, read, reading, out, outIds, offered>>

\* compressed_file_parser: readline() returns b'' and True is returned
EndOfMember ==
  /\ pc \in {"hb_logs", "sos_logs"}
  /\ reading
  /\ reading' = FALSE
  /\ AfterMember(TRUE)
  /\ UNCHANGED <<args, pool, nowYear, budget, date_begin, date_end, log,
                 origin, read, logged, out, outIds, offered>>

\* sosreport_parser: tarfile.open succeeds and etc/os-release is read
SosOpenOk ==
  /\ pc = "sosreport"
  /\ fileIdx < args.sos
  /\ fileIdx' = fileIdx + 1
  /\ \E v \in OsVersions :
       /\ os_ver' = v
       /\ logged' = IF v = 0 THEN logged \cup {"etc/os-release is missing"} ELSE logged
  /\ pc' = "sos_logs"
  /\ part' = "var/log/messages"
  /\ UNCHANGED <<args, pool, nowYear, budget, date_begin, date_end, log,
                 origin, read, reading, members, member, out, outIds>>
  /\ offered' = Append(offered, <<"sos", fileIdx + 1>>)

\* sosreport_parser: tarfile.open raises ReadError or FileNotFoundError
SosOpenFail ==
  /\ pc = "sosreport"
  /\ fileIdx < args.sos
  /\ \E m \in {"Cannot read the file (archive)", "Cannot find the file (archive)"} :
       logged' = logged \cup {m}
  /\ pc' = "exit"
  /\ UNCHANGED <<args, pool, nowYear, budget, date_begin, date_end, log,
                 origin, read, fileIdx, reading, members, member, part,
                 os_ver, out, outIds>>
  /\ offered' = Append(offered, <<"sos", fileIdx + 1>>)

\* logparser: -sos is absent or its list exhausted
SosDone ==
  /\ pc = "sosreport"
  /\ fileIdx = args.sos
  /\ pc' = "output"
  /\ fileIdx' = 0
  /\ UNCHANGED <<args, pool, nowYear, budget, date_begin, date_end, log,
                 origin, read, reading, members, member, part, os_ver, logged,
                 out, outIds, offered>>

\* generate_output: the query runs and its rows are written; then the debug
\* queries, cleanup() and the normal end of the process
GenerateOutput ==
  /\ pc = "output"
  /\ \E inner \in {InnerQuery(log, date_begin, date_end)} :
       /\ out' = OuterSelect(inner)
       /\ outIds' = [k \in 1..Len(inner) |-> inner[k][1]]
  /\ pc' = "done"
  /\ UNCHANGED <<args, pool, nowYear, budget, date_begin, date_end, log,
                 origin, read, fileIdx, reading, members, member, part,
                 os_ver, logged, offered>>

\* execute_sql: sqlite3.Error, logged, then sys.exit()
QueryError ==
  /\ pc = "output"
  /\ logged' = logged \cup {"Error in query"}
  /\ pc' = "exit"
  /\ UNCHANGED <<args, pool, nowYear, budget, date_begin, date_end, log,
                 origin, read, fileIdx, reading, members, member, part,
                 os_ver, out, outIds, offered>>

Next ==
  \/ Construct
  \/ DbCreateError
  \/ OpenLogOk
  \/ OpenLogFail
  \/ LogReadError
  \/ EndOfLog
  \/ NextSource
  \/ ReadLine
  \/ SkipHb
  \/ HbOpenOk
  \/ HbOpenFail
  \/ HbMembersTxt
  \/ HbDescription
  \/ HbNoDescription
  \/ MemberOpenOk
  \/ MemberMissing
  \/ EndOfMember
  \/ SosOpenOk
  \/ SosOpenFail
  \/ SosDone
  \/ GenerateOutput
  \/ QueryError

Spec == Init /\ [][Next]_vars

\* The steps of a run over live log files
NextLines ==
  \/ Construct
  \/ OpenLogOk
  \/ OpenLogFail
  \/ LogReadError
  \/ EndOfLog
  \/ NextSource
  \/ ReadLine
  \/ SkipHb
  \/ SosDone
  \/ GenerateOutput

SpecLines == InitLines /\ [][NextLines]_vars

\* The steps of a run over live log files that all open
NextQuery ==
  \/ Construct
  \/ OpenLogOk
  \/ EndOfLog
  \/ NextSource
  \/ ReadLine
  \/ SkipHb
  \/ SosDone
  \/ GenerateOutput

SpecQuery == InitQuery /\ [][NextQuery]_vars


(***************************************************************************)
(* Properties.                                                             *)
(*                                                                         *)
(* What a line is to the parser is computed once for every line of the     *)
(* catalogue, from the keyword patterns, the two timestamp grammars and    *)
(* the whitespace runs of the line, not from parse_log_line.               *)
(***************************************************************************)
\* The line holds a cue of the keyword pattern of the log type
Cue ==
  [l \in DOMAIN Line, t \in LogTypes |->
     \E kw \in (IF t = "s" THEN system_log_keywords ELSE pacemaker_log_keywords) :
        Contains(Line[l], kw)]

\* The grammar that matches in the line without its '[digits]': 1 (syslog,
\* which has priority), 2 (ISO) or 0 (neither)
Grammar ==
  [l \in DOMAIN Line |->
     IF Ts1Search(StripPid(Line[l])) # None THEN 1
     ELSE IF Ts2Search(StripPid(Line[l])) # None THEN 2
     ELSE 0]

\* The datetime the matched text converts to; ValueError when it does not
\* convert, None when neither grammar matches
Converted ==
  [l \in DOMAIN Line, y \in Years |->
     IF Grammar[l] = 1 THEN Strptime1(y, Ts1Search(StripPid(Line[l])))
     ELSE IF Grammar[l] = 2 THEN Strptime2(Ts2Search(StripPid(Line[l])))
     ELSE None]

IsDateTime(x) == Len(x) = 6

\* The first and the last index of every run of whitespace of s
WsRunStarts(s) ==
  {i \in 1..Len(s) : IsSpace(s[i]) /\ (i = 1 \/ ~IsSpace(s[i - 1]))}

WsRunEnds(s) ==
  {i \in 1..Len(s) : IsSpace(s[i]) /\ (i = Len(s) \/ ~IsSpace(s[i + 1]))}

\* The k-th element of a set of integers, in ascending order
Nth(S, k) == CHOOSE x \in S : Cardinality({y \in S : y <= x}) = k

\* The k-th whitespace-delimited token of s: what lies between the (k-1)-th
\* and the k-th whitespace run
Token(s, k) ==
  SubSeq(s, IF k = 1 THEN 1 ELSE Nth(WsRunEnds(s), k - 1) + 1,
         Nth(WsRunStarts(s), k) - 1)

\* Everything after the k-th whitespace run of s
AfterRun(s, k) == SubSeq(s, Nth(WsRunEnds(s), k) + 1, Len(s))

\* The lengths of the runs of the character ch at the two ends of s
LeadRun(s, ch) ==
  CHOOSE a \in 0..Len(s) :
    (\A k \in 1..a : s[k] = ch) /\ (a = Len(s) \/ s[a + 1] # ch)

TrailRun(s, ch) ==
  CHOOSE b \in 0..Len(s) :
    (\A k \in (Len(s) - b + 1)..Len(s) : s[k] = ch)
      /\ (b = Len(s) \/ s[Len(s) - b] # ch)

\* s without the characters ch at its two ends
Without(s, ch) ==
  IF LeadRun(s, ch) = Len(s) THEN <<>>
  ELSE SubSeq(s, LeadRun(s, ch) + 1, Len(s) - TrailRun(s, ch))

\* The token without its surrounding ':', and then without its surrounding '/'
TrimmedComponent(token) == Without(Without(token, ":"), "/")

\* The number of the token that is the node: 4 in a syslog line, 2 in an ISO line
NodeToken(kind) == IF kind = 1 THEN 4 ELSE 2

\* The fields the layout of the line's grammar gives; ok is FALSE when no
\* grammar matches or the line has fewer whitespace runs than the layout needs
Fields ==
  [l \in DOMAIN Line |->
     LET s == StripPid(Line[l])
         n == NodeToken(Grammar[l])
     IN  IF Grammar[l] = 0 \/ Cardinality(WsRunStarts(s)) < n + 1
         THEN [ok |-> FALSE]
         ELSE [ok |-> TRUE,
               kind |-> Grammar[l],
               node |-> Token(s, n),
               component |-> TrimmedComponent(Token(s, n + 1)),
               payload |-> AfterRun(s, n + 1)]]

\* The line read as r passes the pre-filter and its timestamp matches a
\* grammar without converting to a date
Unconvertible(r) ==
  Cue[r.line, r.logtype] /\ Converted[r.line, nowYear] = ValueError

\* The line read as r passes the pre-filter and has a timestamp, and too few
\* fields for its grammar
TooFewFields(r) ==
  /\ Cue[r.line, r.logtype]
  /\ IsDateTime(Converted[r.line, nowYear])
  /\ ~Fields[r.line].ok

\* The line read as r passes both checks and has the fields of a record
Storable(r) ==
  /\ Cue[r.line, r.logtype]
  /\ IsDateTime(Converted[r.line, nowYear])
  /\ Fields[r.line].ok

\* The line and log type each row of the table came from
Stored ==
  [i \in DOMAIN origin |->
     [line |-> origin[i].line, logtype |-> origin[i].logtype]]

\* The datetime ts lies inside the window of this run, open at both ends
InWindow(ts) ==
  /\ date_begin = None \/ DateTimeLess(date_begin, ts)
  /\ date_end = None \/ DateTimeLess(ts, date_end)

\* Row i of the table satisfies the WHERE clause of at least one SELECT
MatchesRule(i) == Selected[log[i]] # {}

\* The places of the output whose row is row i of the table
Places(i) == {k \in DOMAIN outIds : outIds[k] = i}

\* The rows of the output are rows of the table
OutputFromTable ==
  /\ Len(out) = Len(outIds)
  /\ \A k \in DOMAIN outIds : outIds[k] \in DOMAIN log /\ out[k] = log[outIds[k]]

\* The fencing line of the end-to-end scenarios, read with a log type
FenceRead(t) == [line |-> "fence", logtype |-> t]

\* The rows of the output that came from the fencing line read with log type t
FenceOutput(t) ==
  {k \in DOMAIN outIds : Stored[outIds[k]] = FenceRead(t)}

\* How often the fencing line was read with log type t
FenceReads(t) == {k \in DOMAIN read : read[k] = FenceRead(t)}

\* The record the scenarios expect of the fencing line
IsFenceRecord(row) ==
  /\ row[2] = <<"n","o","d","e","1">>
  /\ row[3] = <<"s","t","o","n","i","t","h","-","n","g">>
  /\ Contains(row[4], <<"r","e","m","o","t","e","_","o","p","_","d","o","n","e">>)

--------------------------------------------------------------------------
\* C1: a line that passes the pre-filter and whose timestamp matches a
\* grammar without converting to a date is treated as "no timestamp": the
\* run is not terminated by it (later lines are still read and the report is
\* still produced).
C1_UnconvertibleTimestampIsNoTimestamp ==
  \A k \in DOMAIN read : Unconvertible(read[k]) => pc # "exit"

\* C2: a line that passes the pre-filter and has a timestamp but too few
\* whitespace-separated fields for its grammar does not crash ingestion: the
\* line is skipped and the run goes on.
C2_ShortLineIsSkipped ==
  \A k \in DOMAIN read : TooFewFields(read[k]) => pc # "raised"

\* C3: the window of the query is open at both ends: a row is in the output
\* only if its timestamp is later than begin (when -b is given) and earlier
\* than end (when -e is given), every row inside the window that matches a
\* rule is in the output, and with begin 2021-01-01, end 2021-01-02 and
\* rule-matching records at 2020-12-31, 2021-01-01T12:00:00 and 2021-01-02
\* only the middle one is returned.
C3_OpenWindow ==
  pc = "done" =>
    /\ args.b = None => date_begin = None
    /\ args.e = None => date_end = None
    /\ args.b = <<"2","0","2","1","-","0","1","-","0","1">> => date_begin = <<2021, 1, 1, 0, 0, 0>>
    /\ args.e = <<"2","0","2","1","-","0","1","-","0","2">> => date_end = <<2021, 1, 2, 0, 0, 0>>
    /\ OutputFromTable
    /\ \A k \in DOMAIN outIds : InWindow(origin[outIds[k]].ts)
    /\ \A i \in DOMAIN log :
         (MatchesRule(i) /\ InWindow(origin[i].ts)) => Places(i) # {}
    /\ ( /\ args.b = <<"2","0","2","1","-","0","1","-","0","1">>
         /\ args.e = <<"2","0","2","1","-","0","1","-","0","2">>
         /\ [i \in DOMAIN origin |-> origin[i].line] = <<"q1", "q3", "q4">> )
       => out = << log[2] >>

\* C3 happens: the scenario of the claim has run
C3_Witness ==
  /\ pc = "done"
  /\ args.b = <<"2","0","2","1","-","0","1","-","0","1">>
  /\ args.e = <<"2","0","2","1","-","0","1","-","0","2">>
  /\ [i \in DOMAIN origin |-> origin[i].line] = <<"q1", "q3", "q4">>
  /\ \A i \in DOMAIN log : MatchesRule(i)
  /\ Len(out) = 1
  /\ out[1][1] = <<"2","0","2","1","-","0","1","-","0","1"," ","1","2",":","0","0",":","0","0">>

\* C4 as the specification states it: the fencing line read as a system log
\* line, with no window, is rejected by the system pre-filter and yields no
\* output record.
C4_SystemTagRejectsFenceLine ==
  (pc = "done" /\ date_begin = None /\ date_end = None /\ read = <<FenceRead("s")>>)
    => (log = <<>> /\ out = <<>>)

\* C4 as the code has it: the fencing line read as a system log line passes
\* the system pre-filter (it holds the cue 'reboot'), is appended, and with no
\* window every such read yields exactly one output record, with node 'node1',
\* component 'stonith-ng' and a payload containing 'remote_op_done'.
C4_SystemTagKeepsFenceLine ==
  /\ Cardinality({i \in DOMAIN Stored : Stored[i] = FenceRead("s")})
       = Cardinality(FenceReads("s"))
  /\ (pc = "done" /\ date_begin = None /\ date_end = None) =>
       /\ OutputFromTable
       /\ Cardinality(FenceOutput("s")) = Cardinality(FenceReads("s"))
       /\ \A k \in FenceOutput("s") : IsFenceRecord(out[k])

\* C4 happens: the run with the fencing line as its only line, read as a
\* system log line, has written its report
C4_Witness ==
  /\ pc = "done"
  /\ date_begin = None /\ date_end = None
  /\ read = <<FenceRead("s")>>
  /\ Len(out) = 1

C6_SetUnion ==
  pc = "done" =>
    /\ OutputFromTable
    /\ \A i \in DOMAIN log :
         Cardinality(Places(i))
           = IF MatchesRule(i) /\ InWindow(origin[i].ts) THEN 1 ELSE 0

\* C6 happens: two rows with the same values, matching the rules 1 and 2, and
\* a row matching no rule are stored; the report holds the two
C6_Witness ==
  /\ pc = "done"
  /\ Len(log) = 3
  /\ \E i, j, n \in DOMAIN log :
       /\ i < j
       /\ log[i] = log[j]
       /\ {1, 2} \subseteq Selected[log[i]]
       /\ Selected[log[n]] = {}
       /\ InWindow(origin[n].ts)
       /\ Places(i) # {} /\ Places(j) # {} /\ Places(n) = {}
  /\ Len(out) = 2

\* C7: the output is sorted by (timestamp, insertion sequence): of two output
\* rows the earlier one has the earlier timestamp, or the same timestamp and
\* was inserted first; with and without a window, also across files.
C7_SortedByTimeThenInsertion ==
  pc = "done" =>
    /\ OutputFromTable
    /\ \A j, k \in DOMAIN outIds :
         j < k =>
           \/ DateTimeLess(origin[outIds[j]].ts, origin[outIds[k]].ts)
           \/ /\ origin[outIds[j]].ts = origin[outIds[k]].ts
              /\ outIds[j] < outIds[k]

\* C7 happens: with a window, a row inserted first is reported last, after
\* two different rows of the same timestamp that came from two files
C7_Witness ==
  /\ pc = "done"
  /\ date_begin # None
  /\ outIds = <<2, 3, 1>>
  /\ origin[2].ts = origin[3].ts
  /\ origin[2].source # origin[3].source
  /\ out[1] # out[2]

\* C8: every row of the table came from a line that holds a cue of the
\* keyword pattern of its log type and whose timestamp was parsed, and the
\* rows are exactly the lines read that pass both checks and have the fields
\* of a record, in the order read: a line failing the pre-filter or matching
\* neither grammar leaves the table as it was, each time it is read.
C8_StoreInvariant ==
  /\ Len(log) = Len(origin)
  /\ \A i \in DOMAIN log :
       /\ Cue[origin[i].line, origin[i].logtype]
       /\ IsDateTime(Converted[origin[i].line, nowYear])
       /\ origin[i].ts = Converted[origin[i].line, nowYear]
       /\ log[i][1] = DateTimeStr(origin[i].ts)
  /\ Stored = SelectSeq(read, Storable)

\* C8 happens: a line with a cue and no timestamp was read, then a line that
\* was stored, and the run has ended normally
C8_Witness ==
  /\ pc = "done"
  /\ Len(read) = 2
  /\ Cue[read[1].line, read[1].logtype]
  /\ Grammar[read[1].line] = 0
  /\ Len(log) = 1
  /\ Stored[1] = read[2]

\* The diagnostics of the fatal errors: the time input, the number of files,
\* the creation and the query of the table, an archive that cannot be opened
FatalDiagnostics ==
  {"Timestamp formatting failed",
   "Timestamp format needs to be YYYY-MM-DD-HH:MM or YYYY-MM-DD",
   "Begin time is equal or later than end time",
   "Please specify at least one file to parse",
   "Please input max two system logs",
   "Please input max two pacemaker logs",
   "Please input max two hb_report",
   "Please input max two sosreport",
   "Error creating the DB and table",
   "Error in query",
   "Cannot read the file (archive)",
   "Cannot find the file (archive)"}

\* C9: every fatal error ends the run with a non-zero exit status, after its
\* diagnostic has been logged.
C9_FatalErrorsExitNonZero ==
  (pc = "exit" /\ logged \cap FatalDiagnostics # {}) => ExitStatus # 0

\* C10: an error of one file or archive is recoverable: an archive that is
\* missing or cannot be read is logged and the run goes on to the remaining
\* sources and to the report.
C10_ArchiveErrorIsRecoverable ==
  (logged \cap {"Cannot read the file (archive)", "Cannot find the file (archive)"} # {})
    => pc # "exit"

\* The cues of the rule on manual placement: a location-ban or a
\* location-preference constraint
PlacementCues == { <<"c","l","i","-","b","a","n">>, <<"c","l","i","-","p","r","e","f","e","r">> }

\* The alternatives of the pacemaker pattern that hold no placement cue
OtherCues == {kw \in pacemaker_log_keywords : \A c \in PlacementCues : ~Contains(kw, c)}

\* The lines of the catalogue with a timestamp that converts, the fields of a
\* record, a placement cue in the payload and no other cue of the pacemaker
\* pattern
PlacementOnly ==
  {l \in DOMAIN Line :
     /\ \A y \in Years : IsDateTime(Converted[l, y])
     /\ Fields[l].ok
     /\ \E c \in PlacementCues : Contains(Fields[l].payload, c)
     /\ \A kw \in OtherCues : ~Contains(Line[l], kw)}

\* C11: every pacemaker line with a parseable timestamp and well-formed
\* fields whose payload holds 'cli-prefer' or 'cli-ban' and that holds no
\* other cue passes the pacemaker pre-filter and is appended to the table
\* each time it is read, and is in the report when inside the window.
C11_PlacementLinesAreReported ==
  \A l \in PlacementOnly :
    LET r == [line |-> l, logtype |-> "p"]
    IN  /\ Cardinality({i \in DOMAIN Stored : Stored[i] = r})
             = Cardinality({k \in DOMAIN read : read[k] = r})
        /\ pc = "done" =>
             \A i \in DOMAIN Stored :
               (Stored[i] = r /\ InWindow(origin[i].ts)) => Places(i) # {}

\* The files 1..n of an option, as `offered` records them
Files(option, n) == [k \in 1..n |-> <<option, k>>]

\* Every file of the command line, in the order system logs, pacemaker logs,
\* hb_reports, sosreports
AllSources(a) ==
  Files("s", a.s) \o Files("p", a.p) \o Files("hb", a.hb) \o Files("sos", a.sos)

\* C12: the query runs only after all ingestion: when generate_output is
\* about to execute the query every file of the validated command line has
\* been handed to its ingestion driver, in the order system logs, pacemaker
\* logs, hb_reports, sosreports, and once the query has run no row is
\* appended to the table.
C12_QueryAfterAllIngestion ==
  [][ /\ pc = "output" => offered = AllSources(args)
      /\ pc = "done" => log' = log ]_vars
=============================================================================
